---- MODULE Spec2Model ----
(***************************************************************************)
(* DocuSpark AI (src/app.py): one Streamlit session of the PDF question-   *)
(* answering app.  Streamlit runs main() from top to bottom on every UI    *)
(* event; the widget values (text input, uploader) and st.session_state    *)
(* survive between runs.  Every action below is one UI event together with *)
(* the script run (and, after st.rerun(), the rerun) it triggers.          *)
(*                                                                         *)
(* PDFProcessor, EmbeddingManager and ChatManager (src/processor.py,       *)
(* src/embedding.py, src/chat.py) are imported by app.py but are not part  *)
(* of the available source; their effects follow the written design.       *)
(***************************************************************************)
EXTENDS Integers, Sequences, FiniteSets, TLC

\* ------------------------------------------------------------------ bounds

\* Longest pending large-file list explored.
MaxLargeFiles == 2

\* Longest conversation history explored.
MaxMessages == 3

\* Chunks the processor produces per source document.
ChunksPerSource == 2

\* --------------------------------------------------------------- constants

\* File sizes are counted in KiB (the code counts bytes): 2 GiB = 2*1024*1024 KiB.
\* process_documents: max_size = 2 * 1024 * 1024 * 1024 bytes.
max_size == 2 * 1024 * 1024

\* main, file-path block: the literal 2 * 1024 * 1024 * 1024 of the size test.
path_size_limit == 2 * 1024 * 1024

\* The fixed answer given while no documents are loaded.
NoDocumentsResponse == "Please upload and process PDF documents first!"

\* ------------------------------------------------------------------ inputs

\* What the file system answers for a path: no such file, a file whose size
\* cannot be read (os.path.getsize raises), or its size in KiB.
Absent == [state |-> "absent", size |-> 0]
Unreadable == [state |-> "unreadable", size |-> 0]
FileOfSize(n) == [state |-> "file", size |-> n]

\* The stats the file-path block of a run may meet: no file, a file of exactly
\* 2 GiB, a file of 3 GiB.  The file system is consulted only for a path that
\* ends in .pdf.
PathStats == {Absent, FileOfSize(2 * 1024 * 1024), FileOfSize(3 * 1024 * 1024)}

\* Values of the "Enter file path:" text input.  NoPath is the empty string.
NoPath == [stem |-> "", ext |-> ""]
ReportPath == [stem |-> "C:/docs/report", ext |-> ".PDF"]
NotesPath == [stem |-> "C:/docs/notes", ext |-> ".txt"]
PathInputs == {NoPath, ReportPath, NotesPath}

\* Files offered to the uploader widget (name and size of the file object).
SmallUpload == [name |-> [stem |-> "paper", ext |-> ".pdf"], size |-> 1024]
HugeUpload == [name |-> [stem |-> "scan", ext |-> ".pdf"], size |-> 3 * 1024 * 1024]
UploadSelections == {<<>>, <<SmallUpload>>, <<SmallUpload, HugeUpload>>}

Queries == {"q1"}

\* Outcomes of the external calls: search and generate_response return or
\* raise; create_embeddings returns True, returns False or raises.
CallOutcomes == {"ok", "raise"}
EmbedOutcomes == {"ok", "false", "raise"}

\* ------------------------------------------------------------------- state

VARIABLES
    api_key_valid,      \* Config.is_valid(): fixed for the process
    session_state,      \* st.session_state: keys present, messages, documents, large_files
    embedding_manager,  \* the EmbeddingManager object: index (chunks with a vector), retriever
    chat_manager,       \* the ChatManager object: retriever connected, exchanges remembered
    file_path,          \* widget state: the text input
    uploaded_files,     \* widget state: the uploader
    last_run            \* what the last script run was given and did (history)

vars == <<api_key_valid, session_state, embedding_manager, chat_manager,
          file_path, uploaded_files, last_run>>

\* The three objects a script run works on.
World == [st |-> session_state, em |-> embedding_manager, cm |-> chat_manager]

\* UI events.
NoEvent == [kind |-> "none", query |-> ""]
ProcessClick == [kind |-> "process", query |-> ""]
ClearConversationClick == [kind |-> "clear_conversation", query |-> ""]
ClearChunksClick == [kind |-> "clear_chunks", query |-> ""]
AskEvent(q) == [kind |-> "ask", query |-> q]

\* The environment of one run: the stat of the typed path, the batch position
\* whose observation is `obs` (0: none; every other source is a file of
\* exactly 2 GiB that extracts cleanly), and the outcomes of the embedding,
\* search and generation calls.
OkObservation == [stat |-> FileOfSize(2 * 1024 * 1024), extract |-> "ok"]
Observations ==
    {[stat |-> Absent, extract |-> "ok"],
     [stat |-> FileOfSize(3 * 1024 * 1024), extract |-> "ok"],
     [stat |-> FileOfSize(1024), extract |-> "raise"]}
QuietEnv == [stat |-> Absent, fail_at |-> 0, obs |-> OkObservation,
             embed |-> "ok", search |-> "ok", gen |-> "ok"]

\* ----------------------------------------------------------------- helpers

\* str.lower() on the extension of a path.
Lower(path) ==
    [path EXCEPT !.ext = CASE @ = ".PDF" -> ".pdf"
                           [] @ = ".Pdf" -> ".pdf"
                           [] OTHER -> @]

\* str.endswith('.pdf')
EndsWithPdf(path) == path.ext = ".pdf"

\* os.path.basename: the stem without its directory.
basename(path) ==
    [path EXCEPT !.stem = CASE @ = "C:/docs/report" -> "report"
                            [] @ = "C:/docs/notes" -> "notes"
                            [] OTHER -> @]

\* processor.process_document: the chunks of one source, in order.
process_document(name) ==
    [i \in 1..ChunksPerSource |-> [source |-> name, position |-> i - 1]]

SeqToSet(s) == {s[i] : i \in 1..Len(s)}

user_turn(q) == [role |-> "user", content |-> q]
assistant_turn(text) == [role |-> "assistant", content |-> text]

\* chat_manager.generate_response: the answer to a query.
Answer(q) == CASE q = "q1" -> "answer to q1"
               [] OTHER -> "answer"

\* One entry of the ingestion log: a size test made, an extraction call made,
\* or an extraction call returned, for the source at position `at` of the batch.
size_checked(i, n) == [op |-> "size", at |-> i, size |-> n]
extraction_called(i) == [op |-> "extract", at |-> i, size |-> 0]
extraction_returned(i) == [op |-> "extracted", at |-> i, size |-> 0]

\* Batch items: isinstance(file, str) tells a large-file path from an upload.
PathItem(path) == [is_str |-> TRUE, name |-> basename(path), size |-> 0]
UploadItem(u) == [is_str |-> FALSE, name |-> u.name, size |-> u.size]
PathItems(paths) == [i \in 1..Len(paths) |-> PathItem(paths[i])]
UploadItems(us) == [i \in 1..Len(us) |-> UploadItem(us[i])]

\* ------------------------------------------------- initialize_session_state

\* A variant that goes on without the API key: the chat manager is created
\* although Config.is_valid() is false.
initialize_without_key_check(w) ==
    [ok |-> TRUE,
     w |-> [w EXCEPT !.st.keys = @ \cup {"processor", "embedding_manager",
                                         "chat_manager", "messages", "documents"}]]

\* Returns whether the session is usable, and the session after the call.
\* An absent "messages", "documents" or "large_files" key and an empty list
\* behave alike in app.py, so an absent list is held as <<>>.
initialize_session_state(w) ==
    LET keys1 == w.st.keys \cup {"processor", "embedding_manager"}
    IN IF "chat_manager" \notin keys1 /\ ~api_key_valid
       THEN [ok |-> FALSE, w |-> [w EXCEPT !.st.keys = keys1]]
       ELSE [ok |-> TRUE,
             w |-> [w EXCEPT !.st.keys =
                        keys1 \cup {"chat_manager", "messages", "documents"}]]

\* ------------------------------------------------------- process_documents

\* EmbeddingManager.create_embeddings: all or nothing; on success the chunks
\* are added to the index and the retriever is built.
create_embeddings(em, all_documents, outcome) ==
    IF outcome = "ok"
    THEN [em |-> [em EXCEPT !.index = @ \cup SeqToSet(all_documents),
                            !.retriever = TRUE],
          result |-> "true"]
    ELSE [em |-> em, result |-> outcome]

\* EmbeddingManager.clear_embeddings: removes every chunk and vector.
clear_embeddings(em) == [em EXCEPT !.index = {}, !.retriever = FALSE]

\* ChatManager.set_retriever.
set_retriever(cm, retriever) == [cm EXCEPT !.retriever = retriever]

\* ChatManager.reset_conversation: forgets the remembered exchanges.
reset_conversation(cm) == [cm EXCEPT !.memory = 0]

\* A variant whose size test for an uploaded file object comes after the
\* extraction call.
ingest_file_extract_first(file, i, seen) ==
    IF file.is_str
    THEN IF seen.stat \in {Absent, Unreadable}
         THEN [status |-> "exception", documents |-> <<>>, log |-> <<>>]
         ELSE IF seen.stat.size > max_size
         THEN [status |-> "too_large", documents |-> <<>>,
               log |-> <<size_checked(i, seen.stat.size)>>]
         ELSE IF seen.extract = "raise"
         THEN [status |-> "exception", documents |-> <<>>,
               log |-> <<size_checked(i, seen.stat.size), extraction_called(i)>>]
         ELSE [status |-> "ok", documents |-> process_document(file.name),
               log |-> <<size_checked(i, seen.stat.size), extraction_called(i),
                         extraction_returned(i)>>]
    ELSE IF seen.extract = "raise"
         THEN [status |-> "exception", documents |-> <<>>,
               log |-> <<extraction_called(i)>>]
         ELSE IF file.size > max_size
         THEN [status |-> "too_large", documents |-> <<>>,
               log |-> <<extraction_called(i), extraction_returned(i),
                         size_checked(i, file.size)>>]
         ELSE [status |-> "ok", documents |-> process_document(file.name),
               log |-> <<extraction_called(i), extraction_returned(i),
                         size_checked(i, file.size)>>]

\* The body of the for loop for one file: the size test, then the extraction.
\* `seen` is what the file system and the processor answer for this file.
\* status "exception" is an exception caught at line 101, "too_large" the
\* return False of the size test.
ingest_file(file, i, seen) ==
    IF file.is_str
    THEN IF seen.stat \in {Absent, Unreadable}
         THEN [status |-> "exception", documents |-> <<>>, log |-> <<>>]
         ELSE IF seen.stat.size > max_size
         THEN [status |-> "too_large", documents |-> <<>>,
               log |-> <<size_checked(i, seen.stat.size)>>]
         ELSE IF seen.extract = "raise"
         THEN [status |-> "exception", documents |-> <<>>,
               log |-> <<size_checked(i, seen.stat.size), extraction_called(i)>>]
         ELSE [status |-> "ok", documents |-> process_document(file.name),
               log |-> <<size_checked(i, seen.stat.size), extraction_called(i),
                         extraction_returned(i)>>]
    ELSE IF file.size > max_size
         THEN [status |-> "too_large", documents |-> <<>>,
               log |-> <<size_checked(i, file.size)>>]
         ELSE IF seen.extract = "raise"
         THEN [status |-> "exception", documents |-> <<>>,
               log |-> <<size_checked(i, file.size), extraction_called(i)>>]
         ELSE [status |-> "ok", documents |-> process_document(file.name),
               log |-> <<size_checked(i, file.size), extraction_called(i),
                         extraction_returned(i)>>]

\* The for loop over files_to_process, stopping at the first failure.
RECURSIVE process_loop(_, _, _, _, _)
loop_step(files, i, all_documents, log, env, one) ==
    IF one.status # "ok"
    THEN [status |-> one.status, all_documents |-> all_documents,
          log |-> log \o one.log]
    ELSE process_loop(files, i + 1, all_documents \o one.documents,
                      log \o one.log, env)

process_loop(files, i, all_documents, log, env) ==
    IF i > Len(files)
    THEN [status |-> "extracted", all_documents |-> all_documents, log |-> log]
    ELSE loop_step(files, i, all_documents, log, env,
                   ingest_file(files[i], i,
                               IF i = env.fail_at THEN env.obs ELSE OkObservation))

\* Lines 88-99: the result of create_embeddings decides how the load ends; on
\* success the retriever is connected to the chat manager.
after_embeddings(stored, emb) ==
    IF emb.result = "true"
    THEN [w |-> [stored EXCEPT !.em = emb.em,
                               !.cm = set_retriever(@, emb.em.retriever)],
          status |-> "loaded", log |-> <<>>]
    ELSE IF emb.result = "false"
    THEN [w |-> [stored EXCEPT !.em = emb.em], status |-> "embedding_failed",
          log |-> <<>>]
    ELSE [w |-> [stored EXCEPT !.em = emb.em], status |-> "embedding_raised",
          log |-> <<>>]

\* Lines 84-99: the chunks are stored in the session, then embedded.
store_and_embed(w, all_documents, outcome) ==
    after_embeddings([w EXCEPT !.st.documents = all_documents],
                     create_embeddings(w.em, all_documents, outcome))

after_loop(w, loop, env) ==
    IF loop.status # "extracted"
    THEN [w |-> w, status |-> loop.status, log |-> loop.log]
    ELSE [store_and_embed(w, loop.all_documents, env.embed)
              EXCEPT !.log = loop.log]

\* process_documents(files_to_process): the world after it, how it ended
\* ("loaded" is the only True return), and the log of its size tests and
\* extraction calls.
process_documents(w, files, env) ==
    after_loop(w, process_loop(files, 1, <<>>, <<>>, env), env)

\* -------------------------------------------------------------------- main

\* Lines 141-159: the "Enter file path:" block, run on every script run.
file_path_block(w, path, stat) ==
    IF path = NoPath THEN w
    ELSE IF ~EndsWithPdf(Lower(path)) THEN w
    ELSE IF stat = Absent THEN w
    ELSE IF stat = Unreadable THEN w
    ELSE IF stat.size > path_size_limit THEN w
    ELSE [w EXCEPT !.st.keys = @ \cup {"large_files"},
                   !.st.large_files = Append(@, path)]

\* Lines 162-166: the batch handed to process_documents.
all_files_to_process(w, uploads) ==
    UploadItems(uploads) \o PathItems(w.st.large_files)

\* Lines 176-180: the "Clear Conversation" handler (before st.rerun()).
clear_conversation(w) ==
    [w EXCEPT !.st.messages = <<>>, !.cm = reset_conversation(@)]

\* Lines 182-188: the "Clear File Chunks" handler (before st.rerun()).
clear_file_chunks(w) ==
    [w EXCEPT !.st.documents = <<>>,
              !.st.large_files = <<>>,
              !.em = clear_embeddings(@)]

\* How an ask ends: the world after it, the outcome of the run, the answer
\* written to the page ("" when none was) and the collaborator calls made.
answered(asked, query, calls) ==
    [w |-> [asked EXCEPT !.st.messages = Append(@, assistant_turn(Answer(query))),
                         !.cm.memory = @ + 1],
     outcome |-> "answered", response |-> Answer(query), calls |-> calls,
     log |-> <<>>]

\* A variant that records the failure as an assistant turn.
failed_with_error_turn(asked, calls) ==
    [w |-> [asked EXCEPT !.st.messages =
                Append(@, assistant_turn("Error generating response"))],
     outcome |-> "exception", response |-> "", calls |-> calls, log |-> <<>>]

\* Lines 210-222 when search or generate_response raises: the exception
\* leaves main() before line 222, so nothing more is recorded.
failed(asked, calls) ==
    [w |-> asked, outcome |-> "exception", response |-> "", calls |-> calls,
     log |-> <<>>]

\* A variant without the no-documents guard of line 203.
respond_without_guard(asked, query, env) ==
    IF asked.em.retriever
    THEN IF env.gen = "raise"
         THEN failed(asked, <<"generate_response">>)
         ELSE answered(asked, query, <<"generate_response">>)
    ELSE IF env.search = "raise"
         THEN failed(asked, <<"search">>)
         ELSE IF env.gen = "raise"
         THEN failed(asked, <<"search", "generate_response">>)
         ELSE answered(asked, query, <<"search", "generate_response">>)

\* Lines 202-222: the answer to a query whose user turn is recorded.
respond(asked, query, env) ==
    IF asked.st.documents = <<>>
    THEN [w |-> [asked EXCEPT !.st.messages =
                     Append(@, assistant_turn(NoDocumentsResponse))],
          outcome |-> "no_documents", response |-> NoDocumentsResponse,
          calls |-> <<>>, log |-> <<>>]
    ELSE IF asked.em.retriever
    THEN IF env.gen = "raise"
         THEN failed(asked, <<"generate_response">>)
         ELSE answered(asked, query, <<"generate_response">>)
    ELSE IF env.search = "raise"
         THEN failed(asked, <<"search">>)
         ELSE IF env.gen = "raise"
         THEN failed(asked, <<"search", "generate_response">>)
         ELSE answered(asked, query, <<"search", "generate_response">>)

\* Lines 196-222: the chat input.
chat_input(w, query, env) ==
    respond([w EXCEPT !.st.messages = Append(@, user_turn(query))], query, env)

Quiet(w, outcome) ==
    [w |-> w, outcome |-> outcome, response |-> "", calls |-> <<>>, log |-> <<>>]

\* Lines 173-222, after the "Process Documents" block ended as `load`.
after_process(load, ev, env) ==
    IF load.w.st.documents # <<>> /\ ev.kind = "clear_conversation"
    THEN Quiet(clear_conversation(load.w), "rerun")
    ELSE IF load.w.st.documents # <<>> /\ ev.kind = "clear_chunks"
    THEN Quiet(clear_file_chunks(load.w), "rerun")
    ELSE IF ev.kind = "ask"
    THEN chat_input(load.w, ev.query, env)
    ELSE [w |-> load.w, outcome |-> load.status, response |-> "",
          calls |-> <<>>, log |-> load.log]

\* Lines 161-171: the batch and the "Process Documents" button.
process_button(w, files, ev, env) ==
    IF files # <<>> /\ ev.kind = "process"
    THEN process_documents(w, files, env)
    ELSE [w |-> w, status |-> "idle", log |-> <<>>]

\* Lines 114-222: the page, once the session is initialised.
page(w, uploads, ev, env) ==
    after_process(process_button(w, all_files_to_process(w, uploads), ev, env),
                  ev, env)

initialized(init, path, uploads, ev, env) ==
    IF ~init.ok
    THEN Quiet(init.w, "missing_api_key")
    ELSE page(file_path_block(init.w, path, env.stat), uploads, ev, env)

\* One run of main() with the widgets holding `path` and `uploads`, the UI
\* event `ev` and the environment `env`.  outcome "rerun" is st.rerun().
main(w, path, uploads, ev, env) ==
    initialized(initialize_session_state(w), path, uploads, ev, env)

rerun_after(first, path, uploads, env2) ==
    IF first.outcome = "rerun"
    THEN [first EXCEPT !.w = main(first.w, path, uploads, NoEvent, env2).w]
    ELSE first

\* A UI event: the run it triggers and, when that run ends in st.rerun(),
\* the rerun (no event, the widgets unchanged, the file system read again).
script_run(w, path, uploads, ev, env, env2) ==
    rerun_after(main(w, path, uploads, ev, env), path, uploads, env2)

\* ----------------------------------------------------------------- actions

Init ==
    /\ api_key_valid \in BOOLEAN
    /\ session_state = [keys |-> {}, messages |-> <<>>, documents |-> <<>>,
                        large_files |-> <<>>]
    /\ embedding_manager = [index |-> {}, retriever |-> FALSE]
    /\ chat_manager = [retriever |-> FALSE, memory |-> 0]
    /\ file_path = NoPath
    /\ uploaded_files = <<>>
    /\ last_run = [event |-> NoEvent, outcome |-> "none",
                   response |-> "", calls |-> <<>>, log |-> <<>>]

\* The widgets of the page exist once a run got past initialize_session_state.
Rendered == "chat_manager" \in session_state.keys

\* "Process Documents" is on the page when the batch is not empty.
ProcessButtonRendered ==
    Rendered /\ (uploaded_files # <<>> \/ session_state.large_files # <<>>)

\* "Clear Conversation" and "Clear File Chunks" are on the page when chunks are held.
ClearButtonsRendered == Rendered /\ session_state.documents # <<>>

\* The state after a UI event: the bounds hold, and the history is recorded.
Finish(path, uploads, ev, env, env2) ==
    \E r \in {script_run(World, path, uploads, ev, env, env2)} :
       /\ Len(r.w.st.large_files) <= MaxLargeFiles
       /\ Len(r.w.st.messages) <= MaxMessages
       /\ session_state' = r.w.st
       /\ embedding_manager' = r.w.em
       /\ chat_manager' = r.w.cm
       /\ file_path' = path
       /\ uploaded_files' = uploads
       /\ last_run' = [event |-> ev, outcome |-> r.outcome,
                       response |-> r.response, calls |-> r.calls,
                       log |-> r.log]
       /\ UNCHANGED api_key_valid

StatEnv(stat) == [QuietEnv EXCEPT !.stat = stat]

StatsFor(path) == IF EndsWithPdf(Lower(path)) THEN PathStats ELSE {Absent}

\* The environments of a load of `n` files: every source fine and any
\* outcome of the embedding call, or one source observed otherwise.
LoadEnvs(stat, n) ==
    {[QuietEnv EXCEPT !.stat = stat, !.embed = e] : e \in EmbedOutcomes}
    \cup {[QuietEnv EXCEPT !.stat = stat, !.fail_at = k, !.obs = o] :
             k \in 1..n, o \in Observations}

\* The page is opened or refreshed: a run without an event.
Rerun ==
    \E stat \in StatsFor(file_path) :
        Finish(file_path, uploaded_files, NoEvent, StatEnv(stat), QuietEnv)

\* The user types a path into the text input.
EnterFilePath ==
    /\ Rendered
    /\ \E path \in PathInputs \ {file_path} :
          \E stat \in StatsFor(path) :
              Finish(path, uploaded_files, NoEvent, StatEnv(stat), QuietEnv)

\* The user changes the selection of the uploader.
UploadFiles ==
    /\ Rendered
    /\ \E uploads \in UploadSelections \ {uploaded_files} :
          \E stat \in StatsFor(file_path) :
              Finish(file_path, uploads, NoEvent, StatEnv(stat), QuietEnv)

\* load_documents: "Process Documents" is clicked.
LoadDocuments ==
    /\ ProcessButtonRendered
    /\ \E stat \in StatsFor(file_path) :
          \E env \in LoadEnvs(stat,
                     Len(all_files_to_process(
                             file_path_block(World, file_path, stat),
                             uploaded_files))) :
              Finish(file_path, uploaded_files, ProcessClick, env, QuietEnv)

\* reset_conversation: "Clear Conversation" is clicked.
ResetConversation ==
    /\ ClearButtonsRendered
    /\ \E stat \in StatsFor(file_path), stat2 \in StatsFor(file_path) :
          Finish(file_path, uploaded_files, ClearConversationClick,
                 StatEnv(stat), StatEnv(stat2))

\* clear_documents: "Clear File Chunks" is clicked.
ClearDocuments ==
    /\ ClearButtonsRendered
    /\ \E stat \in StatsFor(file_path), stat2 \in StatsFor(file_path) :
          Finish(file_path, uploaded_files, ClearChunksClick,
                 StatEnv(stat), StatEnv(stat2))

\* ask(query): a question is entered in the chat input.
Ask ==
    /\ Rendered
    /\ \E q \in Queries, stat \in StatsFor(file_path),
          search \in CallOutcomes, gen \in CallOutcomes :
          Finish(file_path, uploaded_files, AskEvent(q),
                 [QuietEnv EXCEPT !.stat = stat, !.search = search, !.gen = gen],
                 QuietEnv)

Next ==
    \/ Rerun
    \/ EnterFilePath
    \/ UploadFiles
    \/ LoadDocuments
    \/ ResetConversation
    \/ ClearDocuments
    \/ Ask

Spec == Init /\ [][Next]_vars

\* ------------------------------------------------------------------ claims

messages == session_state.messages
documents == session_state.documents
large_files == session_state.large_files
index == embedding_manager.index

\* The batch of the last load: no handler of that run changed the pending list
\* after the batch was built.
LastBatch == UploadItems(uploaded_files) \o PathItems(large_files)

LoadRan == last_run.event.kind = "process"
AskRan == last_run.event.kind = "ask"

\* C1: with no chunks held, ask(query) answers with the fixed no-documents
\* response, calls neither search nor generate_response, and records the user
\* turn followed by the fixed assistant turn.
C1_AskWithoutDocuments ==
    [][(last_run'.event.kind = "ask" /\ documents = <<>>) =>
          /\ last_run'.response = NoDocumentsResponse
          /\ last_run'.calls = <<>>
          /\ session_state'.messages =
                 messages \o <<user_turn(last_run'.event.query),
                               assistant_turn(NoDocumentsResponse)>>]_vars

\* C1 witness: an ask was answered with the fixed response and recorded.
C1_Witness ==
    /\ AskRan
    /\ last_run.outcome = "no_documents"
    /\ documents = <<>>
    /\ Len(messages) >= 2

\* C2: in a load, every extraction call for a source comes after a size test
\* of the same source that found it within the 2 GiB cap, and a load that
\* observed a source above the cap failed.
C2_SizeTestPrecedesExtraction ==
    LoadRan =>
      /\ \A j \in 1..Len(last_run.log) :
            last_run.log[j].op = "extract" =>
               \E i \in 1..(j - 1) :
                  /\ last_run.log[i].op = "size"
                  /\ last_run.log[i].at = last_run.log[j].at
                  /\ last_run.log[i].size <= 2 * 1024 * 1024
      /\ (\E i \in 1..Len(last_run.log) :
              last_run.log[i].op = "size" /\ last_run.log[i].size > 2 * 1024 * 1024)
            => last_run.outcome = "too_large"

\* C2 witness: a load met an oversize source after extracting an earlier one
\* and ended without an extraction call for it.
C2_Witness ==
    /\ LoadRan
    /\ last_run.outcome = "too_large"
    /\ Len(last_run.log) >= 4
    /\ last_run.log[Len(last_run.log)].op = "size"
    /\ last_run.log[Len(last_run.log)].size > 2 * 1024 * 1024

\* C3: the chunks held by the session are exactly the chunks that have a
\* vector in the index.
C3_EveryChunkHasItsVector == SeqToSet(documents) = index

\* C4: when a source of a load fails (oversize, or an exception in its
\* processing), the chunks of the sources of the batch whose extraction had
\* returned are held by the session.
C4_EarlierSourcesKept ==
    (LoadRan /\ last_run.outcome \in {"too_large", "exception"}) =>
       \A j \in 1..Len(last_run.log) :
          last_run.log[j].op = "extracted" =>
             SeqToSet(process_document(LastBatch[last_run.log[j].at].name))
                \subseteq SeqToSet(documents)

\* C5: "Clear Conversation" empties the turn sequence and leaves the chunk
\* collection, the pending large-file list and the index and retriever unchanged.
C5_ResetLeavesDocumentsAlone ==
    [][last_run'.event.kind = "clear_conversation" =>
          /\ session_state'.messages = <<>>
          /\ session_state'.documents = documents
          /\ session_state'.large_files = large_files
          /\ embedding_manager' = embedding_manager]_vars

\* C6: the conversation reset is offered in every state of an initialised
\* session whose history is not empty, also when no chunks are held.
C6_ResetAlwaysOffered ==
    (Rendered /\ messages # <<>>) => ClearButtonsRendered

\* An assistant turn is never first and always follows a user turn.
NoStrayAssistantTurn(turns) ==
    \A i \in 1..Len(turns) :
       turns[i].role = "assistant" => (i > 1 /\ turns[i - 1].role = "user")

\* C7: an ask whose search or generation call fails adds the user turn and
\* nothing else; an ask that is answered adds the user turn followed by one
\* assistant turn holding the answer; no assistant turn ever stands without
\* the user turn it answers.
C7_FailedAskAddsNoAssistantTurn ==
    [][/\ NoStrayAssistantTurn(session_state'.messages)
       /\ (last_run'.event.kind = "ask" /\ last_run'.outcome = "exception") =>
             session_state'.messages =
                Append(messages, user_turn(last_run'.event.query))
       /\ (last_run'.event.kind = "ask" /\ last_run'.outcome # "exception") =>
             session_state'.messages =
                messages \o <<user_turn(last_run'.event.query),
                              assistant_turn(last_run'.response)>>]_vars

\* C7 witness: an ask failed after an earlier exchange; its user turn is the
\* last turn.
C7_Witness ==
    /\ AskRan
    /\ last_run.outcome = "exception"
    /\ Len(messages) = 3
    /\ messages[2].role = "assistant"
    /\ messages[3].role = "user"

\* C8: after a successful load every chunk held before it is still held.
C8_LoadAppends ==
    [][(last_run'.event.kind = "process" /\ last_run'.outcome = "loaded") =>
          SeqToSet(documents) \subseteq SeqToSet(session_state'.documents)]_vars

\* C9: without the API key no chat manager is created, every run ends at the
\* missing-key error, and nothing of the session is ever loaded, asked,
\* reset or cleared.
C9_MissingKeyBlocksEverything ==
    ~api_key_valid =>
       /\ "chat_manager" \notin session_state.keys
       /\ ~Rendered
       /\ last_run.event = NoEvent
       /\ last_run.outcome \in {"none", "missing_api_key"}
       /\ messages = <<>> /\ documents = <<>> /\ large_files = <<>>
       /\ index = {}
       /\ chat_manager = [retriever |-> FALSE, memory |-> 0]

\* C9 witness: main() ran without the key and stopped at the error.
C9_Witness ==
    /\ ~api_key_valid
    /\ last_run.outcome = "missing_api_key"
    /\ "embedding_manager" \in session_state.keys

\* C10: no source path occurs twice in the pending large-file list, and the
\* chunk collection holds no chunk twice.
C10_NoDuplicateSources ==
    /\ \A i, j \in 1..Len(large_files) :
          i # j => large_files[i] # large_files[j]
    /\ \A i, j \in 1..Len(documents) :
          i # j => documents[i] # documents[j]

====
